---- MODULE Spec2Model ----
(***************************************************************************)
(* StudyBuddy: the tolerant JSON extraction routine (cleanAndParseJSON),   *)
(* the service adapter built on the hosted model API, and the top-level    *)
(* App component's state and event handlers.                               *)
(*                                                                         *)
(* A text is a sequence of one-character strings.  JSON values are records *)
(* of one shape, [t, s, keys, kids], so that any two of them compare.      *)
(***************************************************************************)
EXTENDS Integers, Sequences, FiniteSets, TLC

\* ------------------------------------------------------------------ bounds
\* Longest text of the exhaustive input set of the extraction routine.
MaxLen == 4
\* Calls of cleanAndParseJSON made on one input.
MaxCalls == 2
\* Handler invocations (past their empty-input guard) in one run.
MaxRequests == 2
\* Milliseconds the clock advances in one run.
MaxClock == 2

VARIABLES
    text,       \* the argument of cleanAndParseJSON
    embedded,   \* how text was put together: [before, obj, after], or NoParts
    result,     \* what the last call returned or threw, NoResult before it
    console,    \* the entries written with console.error by cleanAndParseJSON
    calls       \* calls made so far

parseVars == <<text, embedded, result, console, calls>>

VARIABLES
    line,       \* the line given to renderLine of MarkdownContent
    span,       \* how line was put together: [before, term, after]
    rendered    \* the element renderLine returned, NoRender before the call

markdownVars == <<line, span, rendered>>
pureVars == <<parseVars, markdownVars>>

VARIABLES
    apiKey,         \* whether process.env.API_KEY is set
    storage,        \* localStorage 'studyBuddyProfile': <<>> or <<the blob>>
    now,            \* Date.now()
    activeView, loading, error, userProfile,
    notePrompt, noteFile, generatedNote,
    mindMapTopic, mindMapData,
    svg,            \* what the svg of MindMapViewer holds: the labels of the nodes drawn
    learningTopic, learningPath,
    chatHistory, chatInput, chatFile,
    pending,        \* the handler invocations that wait for a promise
    nextId,         \* the number the next handler invocation takes
    last            \* history: how the handler invocation that ended in the step
                    \* into this state ended, NoneEnded when none did

envVars == <<apiKey, storage, now>>
uiVars == <<activeView, loading, error, userProfile>>
noteVars == <<notePrompt, noteFile, generatedNote>>
mapVars == <<mindMapTopic, mindMapData>>
pathVars == <<learningTopic, learningPath>>
chatVars == <<chatHistory, chatInput, chatFile>>
reqVars == <<pending, nextId>>
appVars == <<envVars, uiVars, noteVars, mapVars, svg, pathVars, chatVars, reqVars, last>>
vars == <<parseVars, markdownVars, appVars>>

\* ------------------------------------------------------------ characters
Quote == "\""
Newline == "\n"
\* The backtick, which a TLA+ string literal cannot hold.
Backtick == "BACKTICK"
Whitespace == {" ", Newline}
\* JSON.parse rejects a raw control character inside a string.
ControlChars == {Newline}
Digits == {"0", "1", "2", "3", "4", "5", "6", "7", "8", "9"}

FenceJson == <<Backtick, Backtick, Backtick, "j", "s", "o", "n">>
Fence == <<Backtick, Backtick, Backtick>>

\* s.startsWith(pat, i - 1), with i counted from 1
MatchAt(s, i, pat) ==
    /\ i + Len(pat) - 1 <= Len(s)
    /\ SubSeq(s, i, i + Len(pat) - 1) = pat

\* String.prototype.replace(/pat/g, empty): the leftmost matches, not overlapping,
\* are removed in one pass from left to right.
RECURSIVE RemoveAllFrom(_, _, _)
RemoveAllFrom(s, i, pat) ==
    IF i > Len(s) THEN <<>>
    ELSE IF MatchAt(s, i, pat) THEN RemoveAllFrom(s, i + Len(pat), pat)
    ELSE <<s[i]>> \o RemoveAllFrom(s, i + 1, pat)

RemoveAll(s, pat) == RemoveAllFrom(s, 1, pat)

\* The least index from i on (counted from 1) at which c stands; 0 when none.
RECURSIVE IndexFrom(_, _, _)
IndexFrom(s, i, c) ==
    IF i > Len(s) THEN 0
    ELSE IF s[i] = c THEN i
    ELSE IndexFrom(s, i + 1, c)

\* String.prototype.indexOf(c): the 0-based index of the first c, -1 when none.
indexOf(s, c) == IndexFrom(s, 1, c) - 1

\* The greatest index up to i (counted from 1) at which c stands; 0 when none.
RECURSIVE LastIndexFrom(_, _, _)
LastIndexFrom(s, i, c) ==
    IF i < 1 THEN 0
    ELSE IF s[i] = c THEN i
    ELSE LastIndexFrom(s, i - 1, c)

\* String.prototype.lastIndexOf(c): the 0-based index of the last c, -1 when none.
lastIndexOf(s, c) == LastIndexFrom(s, Len(s), c) - 1

\* String.prototype.substring(from, to) on 0-based indices: a negative index
\* counts as 0, one past the end as the length, and the two are swapped when
\* from > to.
substring(s, from, to) ==
    LET clamp(n) == IF n < 0 THEN 0 ELSE IF n > Len(s) THEN Len(s) ELSE n
        a == clamp(from)
        b == clamp(to)
        lo == IF a <= b THEN a ELSE b
        hi == IF a <= b THEN b ELSE a
    IN SubSeq(s, lo + 1, hi)

\* ------------------------------------------------------------- JSON.parse
\* The grammar of JSON over texts without backslash, sign or decimal point:
\* objects, arrays, strings without escapes, non-negative integers with an
\* optional exponent, and the literals true, false, null.
JValue(t, s, keys, kids) == [t |-> t, s |-> s, keys |-> keys, kids |-> kids]
JNull == JValue("null", <<>>, <<>>, <<>>)
JLit(name) == JValue(name, <<>>, <<>>, <<>>)
JNum(lexeme) == JValue("number", lexeme, <<>>, <<>>)
JStr(chars) == JValue("string", chars, <<>>, <<>>)
JArr(kids) == JValue("array", <<>>, <<>>, kids)
JObj(keys, kids) == JValue("object", <<>>, keys, kids)

ParseFail == [ok |-> FALSE, val |-> JNull, pos |-> 0]
ParseOk(v, p) == [ok |-> TRUE, val |-> v, pos |-> p]

RECURSIVE SkipWs(_, _)
SkipWs(s, i) ==
    IF i <= Len(s) /\ s[i] \in Whitespace THEN SkipWs(s, i + 1) ELSE i

\* The index of the quote closing a string whose content starts at j; 0 when
\* the string is not closed or holds a control character.
RECURSIVE ScanString(_, _)
ScanString(s, j) ==
    IF j > Len(s) THEN 0
    ELSE IF s[j] = Quote THEN j
    ELSE IF s[j] \in ControlChars THEN 0
    ELSE ScanString(s, j + 1)

\* The index after the run of digits that starts at j.
RECURSIVE ScanDigits(_, _)
ScanDigits(s, j) ==
    IF j <= Len(s) /\ s[j] \in Digits THEN ScanDigits(s, j + 1) ELSE j

ParseString(s, i) ==
    LET close == ScanString(s, i + 1)
    IN IF close = 0 THEN ParseFail
       ELSE ParseOk(JStr(SubSeq(s, i + 1, close - 1)), close + 1)

\* int = 0 | [1-9][0-9]*, then an optional exponent e|E digits.
ParseNumber(s, i) ==
    LET intEnd == IF s[i] = "0" THEN i + 1 ELSE ScanDigits(s, i)
        hasExp == intEnd <= Len(s) /\ s[intEnd] \in {"e", "E"}
        expEnd == ScanDigits(s, intEnd + 1)
    IN IF ~hasExp THEN ParseOk(JNum(SubSeq(s, i, intEnd - 1)), intEnd)
       ELSE IF expEnd = intEnd + 1 THEN ParseFail
       ELSE ParseOk(JNum(SubSeq(s, i, expEnd - 1)), expEnd)

\* obj[key] = val on an object under construction: a repeated key keeps its
\* place and takes the later value.
PutMember(keys, kids, key, val) ==
    IF \E n \in 1..Len(keys) : keys[n] = key
    THEN [keys |-> keys,
          kids |-> [n \in 1..Len(kids) |-> IF keys[n] = key THEN val ELSE kids[n]]]
    ELSE [keys |-> Append(keys, key), kids |-> Append(kids, val)]

RECURSIVE ParseValue(_, _)
RECURSIVE ParseMembers(_, _, _, _)
RECURSIVE ParseElements(_, _, _)

\* The members of an object from index j on, where a key is expected.
ParseMembers(s, j, keys, kids) ==
    LET k == SkipWs(s, j)
        close == IF k <= Len(s) /\ s[k] = Quote THEN ScanString(s, k + 1) ELSE 0
        colon == SkipWs(s, close + 1)
        v == ParseValue(s, colon + 1)
        m == SkipWs(s, v.pos)
        put == PutMember(keys, kids, SubSeq(s, k + 1, close - 1), v.val)
    IN IF close = 0 THEN ParseFail
       ELSE IF ~(colon <= Len(s) /\ s[colon] = ":") THEN ParseFail
       ELSE IF ~v.ok THEN ParseFail
       ELSE IF m > Len(s) THEN ParseFail
       ELSE IF s[m] = "," THEN ParseMembers(s, m + 1, put.keys, put.kids)
       ELSE IF s[m] = "}" THEN ParseOk(JObj(put.keys, put.kids), m + 1)
       ELSE ParseFail

\* The elements of an array from index j on, where a value is expected.
ParseElements(s, j, kids) ==
    LET v == ParseValue(s, j)
        m == SkipWs(s, v.pos)
    IN IF ~v.ok THEN ParseFail
       ELSE IF m > Len(s) THEN ParseFail
       ELSE IF s[m] = "," THEN ParseElements(s, m + 1, Append(kids, v.val))
       ELSE IF s[m] = "]" THEN ParseOk(JArr(Append(kids, v.val)), m + 1)
       ELSE ParseFail

ParseValue(s, i0) ==
    LET i == SkipWs(s, i0)
        inner == SkipWs(s, i + 1)
    IN IF i > Len(s) THEN ParseFail
       ELSE IF s[i] = "{" THEN
            IF inner <= Len(s) /\ s[inner] = "}"
            THEN ParseOk(JObj(<<>>, <<>>), inner + 1)
            ELSE ParseMembers(s, i + 1, <<>>, <<>>)
       ELSE IF s[i] = "[" THEN
            IF inner <= Len(s) /\ s[inner] = "]"
            THEN ParseOk(JArr(<<>>), inner + 1)
            ELSE ParseElements(s, i + 1, <<>>)
       ELSE IF s[i] = Quote THEN ParseString(s, i)
       ELSE IF s[i] \in Digits THEN ParseNumber(s, i)
       ELSE IF MatchAt(s, i, <<"t", "r", "u", "e">>) THEN ParseOk(JLit("true"), i + 4)
       ELSE IF MatchAt(s, i, <<"f", "a", "l", "s", "e">>) THEN ParseOk(JLit("false"), i + 5)
       ELSE IF MatchAt(s, i, <<"n", "u", "l", "l">>) THEN ParseOk(JLit("null"), i + 4)
       ELSE ParseFail

\* JSON.parse(s): the value, or a SyntaxError when s is not exactly one JSON
\* value between optional whitespace.
JSONparse(s) ==
    LET v == ParseValue(s, 1)
    IN IF v.ok /\ SkipWs(s, v.pos) = Len(s) + 1
       THEN [ok |-> TRUE, val |-> v.val]
       ELSE [ok |-> FALSE, val |-> JNull]

\* ------------------------------------------------------ cleanAndParseJSON
ErrEmpty == "Empty response from AI"
ErrNoStructure == "Response did not contain valid JSON structure"
ErrParse == "Failed to parse AI response as JSON"

\* An outcome: the value returned or the message of the Error thrown, the
\* texts handed to JSON.parse and the entries written with console.error.
Returned(v, parsed) ==
    [ok |-> TRUE, val |-> v, err |-> "", parsed |-> parsed, log |-> <<>>]
Thrown(msg, parsed, log) ==
    [ok |-> FALSE, val |-> JNull, err |-> msg, parsed |-> parsed, log |-> log]

\* text.replace(/```json/g, '').replace(/```/g, '')
cleanText(t) == RemoveAll(RemoveAll(t, FenceJson), Fence)

firstBrace(c) == indexOf(c, "{")
\* The first closing brace taken for the last
lastBrace_first(c) == indexOf(c, "}")

lastBrace(c) == lastIndexOf(c, "}")

\* cleanText.substring(firstBrace, lastBrace + 1), without its closing brace
jsonStr_exclusive(c) == substring(c, firstBrace(c), lastBrace(c))

\* cleanText.substring(firstBrace, lastBrace + 1)
jsonStr(c) == substring(c, firstBrace(c), lastBrace(c) + 1)

ParseErrorEntry(str) == [label |-> "JSON Parse Error on string:", arg |-> str]

\* cleanAndParseJSON testing for the empty text after the fences are removed
cleanAndParseJSON_emptyAfterStrip(t) ==
    LET c == cleanText(t)
        parsed == JSONparse(jsonStr(c))
    IN IF c = <<>> THEN Thrown(ErrEmpty, <<>>, <<>>)
       ELSE IF firstBrace(c) = -1 \/ lastBrace(c) = -1
       THEN Thrown(ErrNoStructure, <<>>, <<>>)
       ELSE IF parsed.ok THEN Returned(parsed.val, <<jsonStr(c)>>)
       ELSE Thrown(ErrParse, <<jsonStr(c)>>, <<ParseErrorEntry(jsonStr(c))>>)

\* cleanAndParseJSON without its try/catch around JSON.parse
cleanAndParseJSON_uncaught(t) ==
    IF t = <<>> THEN Thrown(ErrEmpty, <<>>, <<>>)
    ELSE LET c == cleanText(t)
             parsed == JSONparse(jsonStr(c))
         IN IF firstBrace(c) = -1 \/ lastBrace(c) = -1
            THEN Thrown(ErrNoStructure, <<>>, <<>>)
            ELSE IF parsed.ok THEN Returned(parsed.val, <<jsonStr(c)>>)
            ELSE Thrown("SyntaxError", <<jsonStr(c)>>, <<>>)

\* cleanAndParseJSON reporting every failure with console.error
cleanAndParseJSON_logsAll(t) ==
    IF t = <<>> THEN Thrown(ErrEmpty, <<>>, <<ParseErrorEntry(t)>>)
    ELSE LET c == cleanText(t)
             parsed == JSONparse(jsonStr(c))
         IN IF firstBrace(c) = -1 \/ lastBrace(c) = -1
            THEN Thrown(ErrNoStructure, <<>>, <<ParseErrorEntry(c)>>)
            ELSE IF parsed.ok THEN Returned(parsed.val, <<jsonStr(c)>>)
            ELSE Thrown(ErrParse, <<jsonStr(c)>>, <<ParseErrorEntry(jsonStr(c))>>)

\* What one call returns or throws, hands to JSON.parse and writes to the console.
cleanAndParseJSON(t) ==
    IF t = <<>> THEN Thrown(ErrEmpty, <<>>, <<>>)
    ELSE LET c == cleanText(t)
             parsed == JSONparse(jsonStr(c))
         IN IF firstBrace(c) = -1 \/ lastBrace(c) = -1
            THEN Thrown(ErrNoStructure, <<>>, <<>>)
            ELSE IF parsed.ok THEN Returned(parsed.val, <<jsonStr(c)>>)
            ELSE Thrown(ErrParse, <<jsonStr(c)>>, <<ParseErrorEntry(jsonStr(c))>>)

\* ------------------------------------------------- inputs of the routine
QS(chars) == <<Quote>> \o chars \o <<Quote>>
KeyA == QS(<<"a">>)
KeyName == QS(<<"n", "a", "m", "e">>)

ObjEmpty == <<"{", "}">>
ObjNum == <<"{">> \o KeyA \o <<":", "1", "}">>
ObjLeaf == <<"{">> \o KeyName \o <<":">> \o QS(<<"L", "e", "a", "f">>) \o <<"}">>
ObjRoot ==
    <<"{">> \o KeyName \o <<":">> \o QS(<<"R", "o", "o", "t">>) \o <<",">>
        \o QS(<<"c", "h", "i", "l", "d", "r", "e", "n">>) \o <<":", "[">>
        \o ObjLeaf \o <<"]", "}">>
ObjNested ==
    <<"{">> \o KeyA \o <<":", "{">> \o QS(<<"b">>) \o <<":", "[", "1", ",", "2", "]", "}", "}">>
ObjDup == <<"{">> \o KeyA \o <<":", "1", ",">> \o KeyA \o <<":", "2", "}">>
ObjSpaced == <<"{", " ">> \o KeyA \o <<" ", ":", " ", "t", "r", "u", "e", Newline, "}">>
ObjBraceInString == <<"{">> \o KeyA \o <<":">> \o QS(<<"}", "{">>) \o <<"}">>
ObjFenceInString == <<"{">> \o KeyA \o <<":">> \o QS(Fence \o <<"x">>) \o <<"}">>

\* Texts of JSON objects.
Objects ==
    {ObjEmpty, ObjNum, ObjRoot, ObjNested, ObjDup, ObjSpaced, ObjBraceInString,
     ObjFenceInString}

ProseSure == <<"S", "u", "r", "e", "!", " ">>
ProseDone == <<" ", "D", "o", "n", "e">>
ProseSet == <<"s", "e", "t", " ", "{", "1", "}", " ">>
ProseOpen == <<"a", "{">>
ProseTicks == <<Backtick, Backtick>>

\* Commentary before or after the object.
Prose == {<<>>, ProseSure, ProseDone, ProseSet, ProseOpen, ProseTicks}

\* A fence marker with the line break that goes with it, or none.
OpenFences == {<<>>, Fence \o <<Newline>>, FenceJson \o <<Newline>>}
CloseFences == {<<>>, <<Newline>> \o Fence}

NoParts == [before |-> <<>>, obj |-> <<>>, after |-> <<>>]

\* An object wrapped in prose and fence markers, with its parts.
Wrapped ==
    {[before |-> b \o f, obj |-> o, after |-> g \o a] :
        b \in Prose, f \in OpenFences, o \in Objects, g \in CloseFences, a \in Prose}

JoinParts(p) == p.before \o p.obj \o p.after

\* The spec's end-to-end scenario.
Scenario == ProseSure \o FenceJson \o <<Newline>> \o ObjRoot \o <<Newline>> \o Fence

ExhaustChars == {"{", "}", Backtick, Quote, "1", "a"}

\* Every text over ExhaustChars of length at most MaxLen.
AllTexts == UNION {[1..n -> ExhaustChars] : n \in 0..MaxLen}

\* The spec's example of a brace pair around text that is not JSON.
NotJsonText == <<"{", "n", "o", "t", " ", "j", "s", "o", "n", "}">>

NoResult == [ok |-> FALSE, val |-> JNull, err |-> "not called", parsed |-> <<>>]

\* ---------------------------------------------------------- JS values
\* null and undefined among strings.
Null == "<null>"
Undefined == "<undefined>"
Truthy(v) == v \notin {Null, Undefined, ""}
\* a || b
OrElse(a, b) == IF Truthy(a) THEN a ELSE b

\* String.prototype.trim()
trim(s) ==
    LET inked == {i \in 1..Len(s) : s[i] \notin Whitespace}
        lo == CHOOSE i \in inked : \A j \in inked : i <= j
        hi == CHOOSE i \in inked : \A j \in inked : j <= i
    IN IF inked = {} THEN <<>> ELSE SubSeq(s, lo, hi)

\* ------------------------------------------------------------- AppView
DASHBOARD == "DASHBOARD"
NOTES == "NOTES"
MINDMAP == "MINDMAP"
TUTOR == "TUTOR"
LEARNING_PATH == "LEARNING_PATH"
AppView == {DASHBOARD, NOTES, MINDMAP, TUTOR, LEARNING_PATH}

\* --------------------------------------------------------- UserProfile
\* What the name field can hold, and the options of the two selects.
Names == {"", "An", "Bo"}
Grades == {"Class 8"}
TargetExams == {"NEET"}

DefaultProfile == [name |-> "", grade |-> "", targetExam |-> "", isOnboarded |-> FALSE]

\* JSON.stringify(profile): the members in order, each a key and a JSON token.
JSONstringifyProfile(p) ==
    << <<"name", p.name>>, <<"grade", p.grade>>, <<"targetExam", p.targetExam>>,
       <<"isOnboarded", IF p.isOnboarded THEN "true" ELSE "false">> >>

\* JSON.parse(saved) read as a UserProfile.
JSONparseProfile(blob) ==
    LET member(k) == blob[CHOOSE i \in 1..Len(blob) : blob[i][1] = k][2]
    IN [name |-> member("name"), grade |-> member("grade"),
        targetExam |-> member("targetExam"),
        isOnboarded |-> member("isOnboarded") = "true"]

\* The initialiser of the userProfile state.
LoadProfile(st) == IF st = <<>> THEN DefaultProfile ELSE JSONparseProfile(st[1])

\* --------------------------------------------------------- ChatMessage
\* The id of the welcome message ('init'); the others are clock readings.
InitId == -1
UserFile == "blob:user-file"

\* A text is kept as the pieces the template literal joins.
ChatMessage(id, role, pieces, image, isError) ==
    [id |-> id, role |-> role, text |-> pieces, image |-> image, isError |-> isError]

WelcomeMessage(p) ==
    ChatMessage(InitId, "model",
        <<"Hi ", p.name, "! I'm Professor Nova. \n\nI see you're in **", p.grade,
          "** preparing for **", p.targetExam,
          "**. \n\nI'm here to help you ace it! Ask me anything, generate notes, or upload a problem.">>,
        Undefined, FALSE)

\* An effect that sets the welcome message whatever the chat holds
WelcomeEffect_always(p, hist) ==
    IF p.isOnboarded THEN <<WelcomeMessage(p)>> ELSE hist

\* The effect on userProfile.isOnboarded: the welcome message onto an empty chat.
WelcomeEffect(p, hist) ==
    IF p.isOnboarded /\ Len(hist) = 0 THEN <<WelcomeMessage(p)>> ELSE hist

\* The message the catch of handleSendMessage appends, without its error flag
ChatErrorMessage_unflagged(t, message) ==
    ChatMessage(t + 1, "model", <<OrElse(message, "Something went wrong.")>>,
                Undefined, FALSE)

\* The message the catch of handleSendMessage appends.
ChatErrorMessage(t, message) ==
    ChatMessage(t + 1, "model", <<"Error: ", OrElse(message, "Something went wrong.")>>,
                Undefined, TRUE)

\* A reply appended as if the user had written it
ChatReplyMessage_asUser(t, responseText) ==
    ChatMessage(t + 1, "user", <<responseText>>, Undefined, FALSE)

\* The message the try of handleSendMessage appends.
ChatReplyMessage(t, responseText) ==
    ChatMessage(t + 1, "model", <<responseText>>, Undefined, FALSE)

\* A history passed without its first message
ApiHistory_withoutFirst(hist) ==
    [i \in 1..(Len(hist) - 1) |->
        [role |-> IF hist[i + 1].role = "user" THEN "user" ELSE "model",
         text |-> hist[i + 1].text]]

\* chatHistory.map(msg => ({role, parts: [{text: msg.text}]}))
ApiHistory(hist) ==
    [i \in 1..Len(hist) |->
        [role |-> IF hist[i].role = "user" THEN "user" ELSE "model",
         text |-> hist[i].text]]

\* --------------------------------------------------------------- files
NoFile == [present |-> FALSE, type |-> "", data |-> ""]
PdfFile == [present |-> TRUE, type |-> "application/pdf", data |-> "JVBERi0="]
PngFile == [present |-> TRUE, type |-> "image/png", data |-> "iVBORw0="]
NoteFiles == {PdfFile}
\* A file the browser reports no MIME type for (file.type is '').
UntypedFile == [present |-> TRUE, type |-> "", data |-> "AAEC"]
ChatFiles == {PngFile}

\* What the text fields can hold.
Prompts == {"", "cells"}

\* What the chat input and its file input hold when the user sends: nothing,
\* a question, or a picture alone.
ChatInputs == {<<"", NoFile>>, <<"cells", NoFile>>, <<"", PngFile>>}

\* ------------------------------------------------------ service adapter
Kinds == {"note", "mindmap", "path", "chat"}

MissingKeyMessage(kind) ==
    IF kind = "note" THEN "API Key is missing in environment variables."
    ELSE "API Key is missing"

\* The message of the Error a service's catch throws when the caught one has none.
ServiceFallback(kind) ==
    CASE kind = "note" -> "Failed to generate notes."
      [] kind = "mindmap" -> "Failed to generate mind map."
      [] kind = "chat" -> "Failed to send message."
      [] kind = "path" -> "Failed to generate learning path."

\* The message of the SyntaxError JSON.parse throws.
SyntaxErrorMessage == "Unexpected token in JSON"

\* What the hosted model answers: a response with its text (a string for
\* notes and chat, a JSON text for a mind map or a path), or an error.
ApiResponse(str, chars) == [ok |-> TRUE, str |-> str, chars |-> chars, message |-> ""]
ApiError(message) == [ok |-> FALSE, str |-> Undefined, chars |-> <<>>, message |-> message]

\* An error of the API or the network, with or without a message.
ApiErrors == {ApiError(m) : m \in {Undefined, "Quota exceeded"}}
MindMapTexts == {<<>>, ObjLeaf, FenceJson \o <<Newline>> \o ObjRoot \o <<Newline>> \o Fence,
                 NotJsonText}
PathTexts == {<<>>, ObjNum, ProseSure \o ObjNum}

Responses(kind) ==
    ApiErrors \cup
    CASE kind = "note" -> {ApiResponse(t, <<>>) : t \in {Undefined, "# Cells"}}
      [] kind = "chat" -> {ApiResponse(t, <<>>) : t \in {Undefined, "Sure!"}}
      [] kind = "mindmap" -> {ApiResponse(Undefined, t) : t \in MindMapTexts}
      [] kind = "path" -> {ApiResponse(Undefined, t) : t \in PathTexts}

\* How a promise ends: resolved with a string or a JSON value, or rejected
\* with an error whose message may be missing.
Resolved(str, data) ==
    [ok |-> TRUE, str |-> str, data |-> data, message |-> "", reason |-> "none"]
Rejected(message, reason) ==
    [ok |-> FALSE, str |-> Undefined, data |-> JNull, message |-> message, reason |-> reason]

\* The catch of a service: throw new Error(error.message || fallback).
Rethrown(kind, message, reason) == Rejected(OrElse(message, ServiceFallback(kind)), reason)

generateNotesService(resp) ==
    IF ~resp.ok THEN Rethrown("note", resp.message, "api error")
    ELSE Resolved(OrElse(resp.str, "No notes generated."), JNull)

chatWithTutor(resp) ==
    IF ~resp.ok THEN Rethrown("chat", resp.message, "api error")
    ELSE Resolved(OrElse(resp.str, "I couldn't generate a response."), JNull)

generateMindMapData(resp) ==
    LET cleaned == trim(cleanText(resp.chars))
        parsed == JSONparse(cleaned)
    IN IF ~resp.ok THEN Rethrown("mindmap", resp.message, "api error")
       ELSE IF cleaned = <<>> THEN Rethrown("mindmap", "Empty response", "bad response")
       ELSE IF parsed.ok THEN Resolved(Undefined, parsed.val)
       ELSE Rethrown("mindmap", SyntaxErrorMessage, "bad response")

generateLearningPath(resp) ==
    LET cleaned == trim(cleanText(resp.chars))
        parsed == JSONparse(cleaned)
    IN IF ~resp.ok THEN Rethrown("path", resp.message, "api error")
       ELSE IF parsed.ok THEN Resolved(Undefined, parsed.val)
       ELSE Rethrown("path", SyntaxErrorMessage, "bad response")

\* The parts of the request of generateNotesService: the file, when
\* fileBase64 && mimeType, then the prompt text.
NotesParts(promptText, fileBase64, mimeType) ==
    (IF Truthy(fileBase64) /\ Truthy(mimeType)
     THEN <<[part |-> "inlineData", data |-> fileBase64, mimeType |-> mimeType]>>
     ELSE <<>>)
    \o <<[part |-> "text", data |-> promptText, mimeType |-> Undefined]>>

\* The promise of each service for each answer it can get, computed once.
Outcomes ==
    [kind \in Kinds |->
        [resp \in Responses(kind) |->
            CASE kind = "note" -> generateNotesService(resp)
              [] kind = "chat" -> chatWithTutor(resp)
              [] kind = "mindmap" -> generateMindMapData(resp)
              [] kind = "path" -> generateLearningPath(resp)]]

\* The promise of a service call that got the answer resp.
ServiceOutcome(kind, resp) == Outcomes[kind][resp]

\* Without the credential every service throws before it creates a client.
MissingKey(kind) == Rejected(MissingKeyMessage(kind), "missing key")

\* reader.onerror = reject: the rejection carries a ProgressEvent, no message.
FileReadFailure == Rejected(Undefined, "file read")

\* ------------------------------------------------------- MindMapViewer
\* !data, for a value JSON.parse returned or null.
JTruthy(v) ==
    ~ \/ v.t \in {"null", "false"}
      \/ v.t = "string" /\ v.s = <<>>
      \/ v.t = "number" /\ v.s = <<"0">>

Member(v, key) ==
    IF v.t = "object" /\ \E n \in 1..Len(v.keys) : v.keys[n] = key
    THEN v.kids[CHOOSE n \in 1..Len(v.keys) : v.keys[n] = key]
    ELSE JNull

\* d3.hierarchy's children of a datum: Array.from(d.children) when there is one.
ChildrenOf(v) ==
    LET c == Member(v, "children")
    IN IF c.t = "array" THEN c.kids
       ELSE IF c.t = "string" THEN [n \in 1..Len(c.s) |-> JStr(<<c.s[n]>>)]
       ELSE <<>>

RECURSIVE NextLevel(_)
NextLevel(level) ==
    IF level = <<>> THEN <<>> ELSE ChildrenOf(Head(level)) \o NextLevel(Tail(level))

\* root.descendants(): the data of the nodes, breadth first.
RECURSIVE Descendants(_)
Descendants(level) ==
    IF level = <<>> THEN <<>> ELSE level \o Descendants(NextLevel(level))

\* One g.node with its label d.data.name for each descendant of the root.
Draw(data) ==
    LET nodes == Descendants(<<data>>)
    IN [n \in 1..Len(nodes) |-> Member(nodes[n], "name")]

\* An effect that draws without clearing the previous render
MindMapEffect_keeps(drawn, data) == drawn \o Draw(data)

\* The effect of MindMapViewer on data: selectAll("*").remove(), then the drawing.
MindMapEffect(drawn, data) == Draw(data)

\* What a render leaves in the svg. The viewer is mounted while the main
\* layout shows the mind-map view and renders the svg when data is not null;
\* the effect runs when the svg is new and when setMindMapData was called
\* (JSON.parse returns a new object every time, so the dependency changes).
ViewerStep ==
    LET was == userProfile.isOnboarded /\ activeView = MINDMAP /\ JTruthy(mindMapData)
        is == userProfile'.isOnboarded /\ activeView' = MINDMAP /\ JTruthy(mindMapData')
        dataSet == last'.kind = "mindmap" /\ last'.ok
    IN svg' = IF ~is THEN <<>>
              ELSE IF ~was THEN MindMapEffect(<<>>, mindMapData')
              ELSE IF dataSet THEN MindMapEffect(svg, mindMapData')
              ELSE svg

\* ------------------------------------------------------------ handlers
\* The fallback of a handler's catch: err.message || fallback.
HandlerFallback(kind) ==
    CASE kind = "note" -> "Failed to generate notes."
      [] kind = "mindmap" -> "Failed to generate mind map."
      [] kind = "path" -> "Failed to generate learning path."
      [] kind = "chat" -> "Something went wrong."

\* setError(err.message), without the fallback
ErrorText_noFallback(kind, message) == message

\* The argument of setError in a handler's catch.
ErrorText(kind, message) == OrElse(message, HandlerFallback(kind))

\* A handler invocation waiting for its file to be read ("reading") or for the
\* answer of the hosted model ("network"), with what it captured when called.
Invocation(id, kind, phase, prompt, file, history) ==
    [id |-> id, kind |-> kind, phase |-> phase, prompt |-> prompt, file |-> file,
     history |-> history]

NoneEnded == [id |-> 0, kind |-> "none", ok |-> TRUE, reason |-> "none"]

\* A step in which no handler invocation ends.
Idle == last' = NoneEnded

\* The rest of a handler with setLoading(false) at the end of its try, not in a finally
Continuation_noFinally(id, kind, out, hist, err) ==
    /\ generatedNote' = IF kind = "note" /\ out.ok THEN out.str ELSE generatedNote
    /\ mindMapData' = IF kind = "mindmap" /\ out.ok THEN out.data ELSE mindMapData
    /\ learningPath' = IF kind = "path" /\ out.ok THEN out.data ELSE learningPath
    /\ chatHistory' =
          IF kind # "chat" THEN hist
          ELSE IF out.ok THEN Append(hist, ChatReplyMessage(now, out.str))
          ELSE Append(hist, ChatErrorMessage(now, out.message))
    /\ error' = IF kind # "chat" /\ ~out.ok THEN ErrorText(kind, out.message) ELSE err
    /\ loading' = IF out.ok THEN FALSE ELSE TRUE
    /\ last' = [id |-> id, kind |-> kind, ok |-> out.ok, reason |-> out.reason]

\* A handler whose catch also drops the result it had
Continuation_dropsResult(id, kind, out, hist, err) ==
    /\ generatedNote' = IF kind = "note" THEN (IF out.ok THEN out.str ELSE Null)
                         ELSE generatedNote
    /\ mindMapData' = IF kind = "mindmap" THEN out.data ELSE mindMapData
    /\ learningPath' = IF kind = "path" THEN out.data ELSE learningPath
    /\ chatHistory' =
          IF kind # "chat" THEN hist
          ELSE IF out.ok THEN Append(hist, ChatReplyMessage(now, out.str))
          ELSE Append(hist, ChatErrorMessage(now, out.message))
    /\ error' = IF kind # "chat" /\ ~out.ok THEN ErrorText(kind, out.message) ELSE err
    /\ loading' = FALSE
    /\ last' = [id |-> id, kind |-> kind, ok |-> out.ok, reason |-> out.reason]

\* The rest of a handler once the promise it awaits ended as out: the state
\* after its try, catch and finally, from the chat history hist and error err.
Continuation(id, kind, out, hist, err) ==
    /\ generatedNote' = IF kind = "note" /\ out.ok THEN out.str ELSE generatedNote
    /\ mindMapData' = IF kind = "mindmap" /\ out.ok THEN out.data ELSE mindMapData
    /\ learningPath' = IF kind = "path" /\ out.ok THEN out.data ELSE learningPath
    /\ chatHistory' =
          IF kind # "chat" THEN hist
          ELSE IF out.ok THEN Append(hist, ChatReplyMessage(now, out.str))
          ELSE Append(hist, ChatErrorMessage(now, out.message))
    /\ error' = IF kind # "chat" /\ ~out.ok THEN ErrorText(kind, out.message) ELSE err
    /\ loading' = FALSE
    /\ last' = [id |-> id, kind |-> kind, ok |-> out.ok, reason |-> out.reason]

\* A handler whose service creates its client and sends without testing the credential
Begin_noKeyTest(kind, prompt, file, history, hist, err) ==
    /\ nextId <= MaxRequests
    /\ nextId' = nextId + 1
    /\ pending' = pending \cup
          {Invocation(nextId, kind, IF file.present THEN "reading" ELSE "network",
                      prompt, file, history)}
    /\ loading' = TRUE
    /\ error' = err
    /\ chatHistory' = hist
    /\ UNCHANGED <<generatedNote, mindMapData, learningPath>> /\ Idle

\* A handler from setLoading(true) up to its first await that has to wait: the
\* file read, or the request. Without the credential the service throws at once
\* and the handler runs to its end.
Begin(kind, prompt, file, history, hist, err) ==
    /\ nextId <= MaxRequests
    /\ nextId' = nextId + 1
    /\ IF file.present \/ apiKey
       THEN /\ pending' = pending \cup
                {Invocation(nextId, kind, IF file.present THEN "reading" ELSE "network",
                            prompt, file, history)}
            /\ loading' = TRUE
            /\ error' = err
            /\ chatHistory' = hist
            /\ UNCHANGED <<generatedNote, mindMapData, learningPath>> /\ Idle
       ELSE /\ Continuation(nextId, kind, MissingKey(kind), hist, err)
            /\ UNCHANGED pending

\* What no handler changes.
HandlerFrame == UNCHANGED <<pureVars, envVars, activeView, userProfile>> /\ ViewerStep

\* handleGenerateNote, called with the fields holding prompt and file.
handleGenerateNote(prompt, file) ==
    /\ IF ~Truthy(prompt) /\ ~file.present
       THEN UNCHANGED <<loading, error, generatedNote, mindMapData, learningPath,
                        chatHistory, reqVars>> /\ Idle
       ELSE Begin("note", prompt, file, <<>>, chatHistory, Null)
    /\ HandlerFrame

\* A handleGenerateMindMap without its first line
handleGenerateMindMap_noGuard(topic) ==
    /\ Begin("mindmap", topic, NoFile, <<>>, chatHistory, Null)
    /\ HandlerFrame

\* handleGenerateMindMap, called with the field holding topic.
handleGenerateMindMap(topic) ==
    /\ IF ~Truthy(topic)
       THEN UNCHANGED <<loading, error, generatedNote, mindMapData, learningPath,
                        chatHistory, reqVars>> /\ Idle
       ELSE Begin("mindmap", topic, NoFile, <<>>, chatHistory, Null)
    /\ HandlerFrame

\* handleGeneratePath, called with the field holding topic.
handleGeneratePath(topic) ==
    /\ IF ~Truthy(topic)
       THEN UNCHANGED <<loading, error, generatedNote, mindMapData, learningPath,
                        chatHistory, reqVars>> /\ Idle
       ELSE Begin("path", topic, NoFile, <<>>, chatHistory, Null)
    /\ HandlerFrame

\* handleSendMessage, called with the fields holding input and file.
handleSendMessage(input, file) ==
    /\ IF ~Truthy(input) /\ ~file.present
       THEN /\ chatInput' = input
            /\ chatFile' = file
            /\ UNCHANGED <<loading, error, generatedNote, mindMapData, learningPath,
                           chatHistory, reqVars>> /\ Idle
       ELSE LET newMessage ==
                    ChatMessage(now, "user", <<input>>,
                                IF file.present THEN UserFile ELSE Undefined, FALSE)
            IN /\ Begin("chat", input, file, ApiHistory(chatHistory),
                        Append(chatHistory, newMessage), error)
               /\ chatInput' = ""
               /\ chatFile' = NoFile
    /\ HandlerFrame

\* ------------------------------------------------- promises that settle
SettleFrame ==
    UNCHANGED <<pureVars, envVars, activeView, userProfile, notePrompt, noteFile,
                mindMapTopic, learningTopic, chatInput, chatFile, nextId>> /\ ViewerStep

\* reader.onload: the file is read, and the handler calls its service.
FileReadDone(e) ==
    /\ e \in pending
    /\ e.phase = "reading"
    /\ IF apiKey
       THEN /\ pending' = (pending \ {e}) \cup {[e EXCEPT !.phase = "network"]}
            /\ UNCHANGED <<loading, error, generatedNote, mindMapData, learningPath,
                           chatHistory>> /\ Idle
       ELSE /\ pending' = pending \ {e}
            /\ Continuation(e.id, e.kind, MissingKey(e.kind), chatHistory, error)
    /\ SettleFrame

\* reader.onerror: the file cannot be read.
FileReadFailed(e) ==
    /\ e \in pending
    /\ e.phase = "reading"
    /\ pending' = pending \ {e}
    /\ Continuation(e.id, e.kind, FileReadFailure, chatHistory, error)
    /\ SettleFrame

\* The hosted model answers the request of e with resp.
NetworkSettles(e, resp) ==
    /\ e \in pending
    /\ e.phase = "network"
    /\ pending' = pending \ {e}
    /\ Continuation(e.id, e.kind, ServiceOutcome(e.kind, resp), chatHistory, error)
    /\ SettleFrame

\* ------------------------------------------------------- the onboarding form
OnboardingShown == ~userProfile.isOnboarded

ProfileFrame ==
    UNCHANGED <<pureVars, envVars, activeView, loading, error, noteVars, mapVars,
                pathVars, chatVars, reqVars>> /\ Idle /\ ViewerStep

EditName(v) ==
    /\ OnboardingShown
    /\ v # userProfile.name
    /\ userProfile' = [userProfile EXCEPT !.name = v]
    /\ ProfileFrame

SelectGrade(v) ==
    /\ OnboardingShown
    /\ v # userProfile.grade
    /\ userProfile' = [userProfile EXCEPT !.grade = v]
    /\ ProfileFrame

SelectTargetExam(v) ==
    /\ OnboardingShown
    /\ v # userProfile.targetExam
    /\ userProfile' = [userProfile EXCEPT !.targetExam = v]
    /\ ProfileFrame

\* saveProfile storing the profile it was called with, not the updated one
saveProfile_storesOld ==
    LET updated == [userProfile EXCEPT !.isOnboarded = TRUE]
    IN /\ userProfile' = updated
       /\ storage' = <<JSONstringifyProfile(userProfile)>>
       /\ chatHistory' = WelcomeEffect(updated, chatHistory)
       /\ UNCHANGED <<pureVars, apiKey, now, activeView, loading, error, noteVars,
                      mapVars, pathVars, chatInput, chatFile, reqVars>> /\ Idle /\ ViewerStep

\* saveProfile, and the effect on userProfile.isOnboarded that follows it.
saveProfile ==
    LET updated == [userProfile EXCEPT !.isOnboarded = TRUE]
    IN /\ userProfile' = updated
       /\ storage' = <<JSONstringifyProfile(updated)>>
       /\ chatHistory' = WelcomeEffect(updated, chatHistory)
       /\ UNCHANGED <<pureVars, apiKey, now, activeView, loading, error, noteVars,
                      mapVars, pathVars, chatInput, chatFile, reqVars>> /\ Idle /\ ViewerStep

\* The "Let's Learn!" button never disabled
ClickSave_anyFields ==
    /\ OnboardingShown
    /\ saveProfile

\* The "Let's Learn!" button, disabled until the three fields are filled.
ClickSave ==
    /\ OnboardingShown
    /\ ~(~Truthy(userProfile.name) \/ ~Truthy(userProfile.grade)
            \/ ~Truthy(userProfile.targetExam))
    /\ saveProfile

\* ------------------------------------------------------------- the views
MainShown == userProfile.isOnboarded

\* An Edit Profile that starts the profile over
EditProfile_resets ==
    /\ MainShown
    /\ userProfile' = DefaultProfile
    /\ ProfileFrame

\* The sidebar's Edit Profile button.
EditProfile ==
    /\ MainShown
    /\ userProfile' = [userProfile EXCEPT !.isOnboarded = FALSE]
    /\ ProfileFrame

SetActiveView(v) ==
    /\ MainShown
    /\ v # activeView
    /\ activeView' = v
    /\ UNCHANGED <<pureVars, envVars, loading, error, userProfile, noteVars, mapVars,
                   pathVars, chatVars, reqVars>> /\ Idle /\ ViewerStep

\* The banner "Warning: API_KEY is missing." above the views.
ApiKeyWarning == MainShown /\ ~apiKey

\* The views whose render ends with {error && <p>{error}</p>}.
InlineViews == {NOTES, MINDMAP, LEARNING_PATH}

\* What the error paragraph of a view shows, Null when the view renders none.
ErrorParagraph(view) == IF view \in InlineViews /\ Truthy(error) THEN error ELSE Null

\* In the actions below the user fills the fields of the view and then clicks
\* or presses Enter: the fields hold what was typed when the handler runs.

\* The "Make Magic Notes" button.
ClickGenerateNote(prompt, file) ==
    /\ MainShown /\ activeView = NOTES
    /\ ~(loading \/ (~Truthy(prompt) /\ ~file.present))
    /\ notePrompt' = prompt
    /\ noteFile' = file
    /\ handleGenerateNote(prompt, file)
    /\ UNCHANGED <<mindMapTopic, learningTopic, chatInput, chatFile>>

\* The notebook's Clear button, shown while there is a note.
ClearNote ==
    /\ MainShown /\ activeView = NOTES
    /\ Truthy(generatedNote)
    /\ generatedNote' = Null
    /\ UNCHANGED <<pureVars, envVars, uiVars, notePrompt, noteFile, mapVars, pathVars,
                   chatVars, reqVars>> /\ Idle /\ ViewerStep

\* The "Visualize" button.
ClickGenerateMindMap(topic) ==
    /\ MainShown /\ activeView = MINDMAP
    /\ ~(loading \/ ~Truthy(topic))
    /\ mindMapTopic' = topic
    /\ handleGenerateMindMap(topic)
    /\ UNCHANGED <<notePrompt, noteFile, learningTopic, chatInput, chatFile>>

\* Enter in the topic field: onKeyDown calls the handler whatever loading is.
EnterMindMapTopic(topic) ==
    /\ MainShown /\ activeView = MINDMAP
    /\ mindMapTopic' = topic
    /\ handleGenerateMindMap(topic)
    /\ UNCHANGED <<notePrompt, noteFile, learningTopic, chatInput, chatFile>>

\* The "Start Quest" button.
ClickGeneratePath(topic) ==
    /\ MainShown /\ activeView = LEARNING_PATH
    /\ ~(loading \/ ~Truthy(topic))
    /\ learningTopic' = topic
    /\ handleGeneratePath(topic)
    /\ UNCHANGED <<notePrompt, noteFile, mindMapTopic, chatInput, chatFile>>

\* The send button.
ClickSend(input, file) ==
    /\ MainShown /\ activeView = TUTOR
    /\ ~((~Truthy(input) /\ ~file.present) \/ loading)
    /\ handleSendMessage(input, file)
    /\ UNCHANGED <<notePrompt, noteFile, mindMapTopic, learningTopic>>

\* Enter in the chat input: onKeyDown calls the handler whatever loading is.
EnterChatInput(input, file) ==
    /\ MainShown /\ activeView = TUTOR
    /\ handleSendMessage(input, file)
    /\ UNCHANGED <<notePrompt, noteFile, mindMapTopic, learningTopic>>

ClearChat ==
    /\ MainShown /\ activeView = TUTOR
    /\ chatHistory' = <<>>
    /\ UNCHANGED <<pureVars, envVars, uiVars, noteVars, mapVars, pathVars, chatInput,
                   chatFile, reqVars>> /\ Idle /\ ViewerStep

\* ------------------------------------------------------ MarkdownContent
Stars == <<"*", "*">>

\* The least index from i on (counted from 1) at which pat stands; 0 when none.
RECURSIVE IndexOfFrom(_, _, _)
IndexOfFrom(s, i, pat) ==
    IF i + Len(pat) - 1 > Len(s) THEN 0
    ELSE IF MatchAt(s, i, pat) THEN i
    ELSE IndexOfFrom(s, i + 1, pat)

\* text.split(/(\*\*.*?\*\*)/g): the texts between the matches and the matches,
\* in order; a match runs from a pair of stars to the nearest pair after it.
RECURSIVE SplitBold(_)
SplitBold(s) ==
    LET open == IndexOfFrom(s, 1, Stars)
        close == IF open = 0 THEN 0 ELSE IndexOfFrom(s, open + 2, Stars)
    IN IF close = 0 THEN <<s>>
       ELSE <<SubSeq(s, 1, open - 1), SubSeq(s, open, close + 1)>>
                \o SplitBold(SubSeq(s, close + 2, Len(s)))

\* One child of the element: a strong or highlighted span, or a string.
Inline(bold, chars) == [bold |-> bold, chars |-> chars]

\* The body of parts.map in formatInline: part.slice(2, -2) in a span when
\* part.startsWith('**') && part.endsWith('**'), else the part itself.
FormatPart(part) ==
    IF MatchAt(part, 1, Stars) /\ MatchAt(part, Len(part) - 1, Stars)
    THEN Inline(TRUE, SubSeq(part, 3, Len(part) - 2))
    ELSE Inline(FALSE, part)

formatInline(t) ==
    LET parts == SplitBold(t)
    IN [i \in 1..Len(parts) |-> FormatPart(parts[i])]

Element(tag, children) == [tag |-> tag, children |-> children]
NoRender == Element("none", <<>>)

\* The characters of s from index i on, white space at their start skipped.
RECURSIVE SkipSpace(_, _)
SkipSpace(s, i) ==
    IF i <= Len(s) /\ s[i] \in Whitespace THEN SkipSpace(s, i + 1)
    ELSE SubSeq(s, i, Len(s))

\* trimmed.match(/^(#{1,6})\s*(.+)/): the level and the text, level 0 when
\* there is no match. The hashes are taken greedily, and one is given back to
\* the text when nothing follows them.
RECURSIVE LeadingHashes(_, _)
LeadingHashes(s, i) ==
    IF i <= Len(s) /\ i <= 6 /\ s[i] = "#" THEN LeadingHashes(s, i + 1) ELSE i - 1

headerMatch(trimmed) ==
    LET h == LeadingHashes(trimmed, 1)
    IN IF h = 0 THEN [level |-> 0, text |-> <<>>]
       ELSE IF h < Len(trimmed) THEN [level |-> h, text |-> SkipSpace(trimmed, h + 1)]
       ELSE IF h >= 2 THEN [level |-> h - 1, text |-> <<"#">>]
       ELSE [level |-> 0, text |-> <<>>]

\* trimmed.match(/^(\*|-)\s*(.+)/): whether it matches, and the text.
listMatch(trimmed) ==
    IF Len(trimmed) >= 2 /\ trimmed[1] \in {"*", "-"}
    THEN [ok |-> TRUE, text |-> SkipSpace(trimmed, 2)]
    ELSE [ok |-> FALSE, text |-> <<>>]

\* renderLine(line, index): the element of one line of the content.
renderLine(l) ==
    LET trimmed == trim(l)
        header == headerMatch(trimmed)
        item == listMatch(trimmed)
    IN IF trimmed = <<>> THEN Element("div", <<>>)
       ELSE IF header.level > 0
       THEN Element(CASE header.level = 3 -> "h3"
                      [] header.level = 2 -> "h2"
                      [] OTHER -> "h1",
                    <<Inline(FALSE, trim(header.text))>>)
       ELSE IF item.ok THEN Element("li", formatInline(trim(item.text)))
       ELSE Element("p", formatInline(trimmed))

\* The lines: a span of a term between two stars on each side, with what
\* stands before it and after it in the line.
Terms == {<<"a">>, <<"a", "b">>, <<"a", " ", "b">>}
Befores ==
    {<<>>, <<"x", " ">>, <<" ", " ">>,
     <<"#", " ">>, <<"#", "#", " ">>, <<"#", "#", "#", " ">>,
     <<"-", " ">>, <<"*", " ">>}
Afters == {<<>>, <<" ", "y">>, <<"!">>, <<" ">> \o Stars \o <<"c">> \o Stars}
Spans == [before : Befores, term : Terms, after : Afters]
NoSpan == [before |-> <<>>, term |-> <<>>, after |-> <<>>]
JoinSpan(sp) == sp.before \o Stars \o sp.term \o Stars \o sp.after

\* renderLine is not running.
MarkdownIdle ==
    /\ line = <<>>
    /\ span = NoSpan
    /\ rendered = NoRender

\* ------------------------------------------------------- the environment
\* The state of the App component when the page has loaded.
Mounted(st) ==
    /\ activeView = DASHBOARD
    /\ loading = FALSE
    /\ error = Null
    /\ userProfile = LoadProfile(st)
    /\ notePrompt = "" /\ noteFile = NoFile /\ generatedNote = Null
    /\ mindMapTopic = "" /\ mindMapData = JNull
    /\ svg = <<>>
    /\ learningTopic = "" /\ learningPath = JNull
    /\ chatHistory = WelcomeEffect(LoadProfile(st), <<>>)
    /\ chatInput = "" /\ chatFile = NoFile
    /\ pending = {}

\* The page is loaded again: the state is built anew from the storage and the
\* promises of the page that was left are never heard of.
Reload ==
    /\ activeView' = DASHBOARD
    /\ loading' = FALSE
    /\ error' = Null
    /\ userProfile' = LoadProfile(storage)
    /\ notePrompt' = "" /\ noteFile' = NoFile /\ generatedNote' = Null
    /\ mindMapTopic' = "" /\ mindMapData' = JNull
    /\ learningTopic' = "" /\ learningPath' = JNull
    /\ chatHistory' = WelcomeEffect(LoadProfile(storage), <<>>)
    /\ chatInput' = "" /\ chatFile' = NoFile
    /\ pending' = {}
    /\ UNCHANGED <<pureVars, envVars, nextId>> /\ Idle /\ ViewerStep

\* A millisecond passes.
Tick ==
    /\ now < MaxClock
    /\ now' = now + 1
    /\ UNCHANGED <<pureVars, apiKey, storage, uiVars, noteVars, mapVars, pathVars,
                   chatVars, reqVars>> /\ Idle /\ ViewerStep

\* The extraction routine is not running.
ParseIdle ==
    /\ text = <<>>
    /\ embedded = NoParts
    /\ result = NoResult
    /\ console = <<>>
    /\ calls = 0

\* Neither routine is running.
PureIdle == ParseIdle /\ MarkdownIdle

\* The first load of the page in a browser that holds the blob st, or none.
AppInit(st) ==
    /\ apiKey \in BOOLEAN
    /\ storage = st
    /\ now = 0
    /\ Mounted(st)
    /\ nextId = 1
    /\ last = NoneEnded

\* The profile of a user who went through the onboarding in an earlier visit.
SavedProfile == [name |-> "An", grade |-> "Class 8", targetExam |-> "NEET",
                 isOnboarded |-> TRUE]

\* The profile's life: the onboarding form, Save, Edit Profile, the views and
\* the reload, from the first visit on.
ProfileInit == AppInit(<<>>) /\ PureIdle

ProfileNext ==
    \/ \E v \in Names : EditName(v)
    \/ \E v \in Grades : SelectGrade(v)
    \/ \E v \in TargetExams : SelectTargetExam(v)
    \/ ClickSave
    \/ EditProfile
    \/ \E v \in AppView : SetActiveView(v)
    \/ ClearChat
    \/ Reload

SpecProfile == ProfileInit /\ [][ProfileNext]_vars

\* The four features in the visit of a user who has a saved profile.
Init == AppInit(<<JSONstringifyProfile(SavedProfile)>>) /\ PureIdle

Next ==
    \/ ClickSave
    \/ EditProfile
    \/ \E v \in AppView : SetActiveView(v)
    \/ \E v \in Prompts, f \in NoteFiles \cup {NoFile} : ClickGenerateNote(v, f)
    \/ ClearNote
    \/ \E v \in Prompts : ClickGenerateMindMap(v)
    \/ \E v \in Prompts : EnterMindMapTopic(v)
    \/ \E v \in Prompts : ClickGeneratePath(v)
    \/ \E i \in ChatInputs : ClickSend(i[1], i[2])
    \/ \E i \in ChatInputs : EnterChatInput(i[1], i[2])
    \/ ClearChat
    \/ \E e \in pending : FileReadDone(e)
    \/ \E e \in pending : FileReadFailed(e)
    \/ \E e \in pending : \E resp \in Responses(e.kind) : NetworkSettles(e, resp)
    \/ Reload

Spec == Init /\ [][Next]_vars

\* The notes, mind-map and learning-path features alone.
InlineNext ==
    \/ ClickSave
    \/ EditProfile
    \/ \E v \in AppView : SetActiveView(v)
    \/ \E v \in Prompts, f \in NoteFiles \cup {NoFile} : ClickGenerateNote(v, f)
    \/ ClearNote
    \/ \E v \in Prompts : ClickGenerateMindMap(v)
    \/ \E v \in Prompts : EnterMindMapTopic(v)
    \/ \E v \in Prompts : ClickGeneratePath(v)
    \/ \E e \in pending : FileReadDone(e)
    \/ \E e \in pending : FileReadFailed(e)
    \/ \E e \in pending : \E resp \in Responses(e.kind) : NetworkSettles(e, resp)
    \/ Reload

SpecInline == Init /\ [][InlineNext]_vars

\* The two diagrams, the mind map and the learning path, with the viewer
\* mounted and unmounted by the views, Edit Profile and Save.
DiagramsNext ==
    \/ ClickSave
    \/ EditProfile
    \/ \E v \in AppView : SetActiveView(v)
    \/ \E v \in Prompts : ClickGenerateMindMap(v)
    \/ \E v \in Prompts : EnterMindMapTopic(v)
    \/ \E v \in Prompts : ClickGeneratePath(v)
    \/ \E e \in pending : \E resp \in Responses(e.kind) : NetworkSettles(e, resp)
    \/ Reload

SpecDiagrams == Init /\ [][DiagramsNext]_vars

\* The chat with the tutor alone, under the saved profile.
ChatNext ==
    \/ \E v \in AppView : SetActiveView(v)
    \/ \E i \in ChatInputs : ClickSend(i[1], i[2])
    \/ \E i \in ChatInputs : EnterChatInput(i[1], i[2])
    \/ ClearChat
    \/ \E e \in pending : FileReadDone(e)
    \/ \E e \in pending : FileReadFailed(e)
    \/ \E e \in pending : \E resp \in Responses(e.kind) : NetworkSettles(e, resp)
    \/ Reload

SpecChat == Init /\ [][ChatNext]_vars

\* The notes alone, with the files a user can attach.
NotesNext ==
    \/ SetActiveView(NOTES)
    \/ \E v \in Prompts, f \in NoteFiles \cup {UntypedFile, NoFile} : ClickGenerateNote(v, f)
    \/ ClearNote
    \/ \E e \in pending : FileReadDone(e)
    \/ \E e \in pending : FileReadFailed(e)
    \/ \E e \in pending : \E resp \in Responses(e.kind) : NetworkSettles(e, resp)
    \/ Reload

SpecNotes == Init /\ [][NotesNext]_vars

\* The chat with the tutor while the clock runs.
ClockNext ==
    \/ SetActiveView(TUTOR)
    \/ \E i \in ChatInputs : ClickSend(i[1], i[2])
    \/ \E i \in ChatInputs : EnterChatInput(i[1], i[2])
    \/ ClearChat
    \/ \E e \in pending : FileReadDone(e)
    \/ \E e \in pending : FileReadFailed(e)
    \/ \E e \in pending : \E resp \in Responses(e.kind) : NetworkSettles(e, resp)
    \/ Tick

SpecClock == Init /\ [][ClockNext]_vars

\* The four handlers together, under the saved profile.
HandlersNext ==
    \/ \E v \in AppView : SetActiveView(v)
    \/ \E v \in Prompts, f \in NoteFiles \cup {NoFile} : ClickGenerateNote(v, f)
    \/ \E v \in Prompts : ClickGenerateMindMap(v)
    \/ \E v \in Prompts : EnterMindMapTopic(v)
    \/ \E v \in Prompts : ClickGeneratePath(v)
    \/ \E i \in ChatInputs : ClickSend(i[1], i[2])
    \/ \E i \in ChatInputs : EnterChatInput(i[1], i[2])
    \/ \E e \in pending : FileReadDone(e)
    \/ \E e \in pending : FileReadFailed(e)
    \/ \E e \in pending : \E resp \in Responses(e.kind) : NetworkSettles(e, resp)

SpecHandlers == Init /\ [][HandlersNext]_vars

\* From the first visit on: the onboarding form, Save, Edit Profile, the views,
\* and the mind map as the feature used.
OnboardingNext ==
    \/ \E v \in Names : EditName(v)
    \/ \E v \in Grades : SelectGrade(v)
    \/ \E v \in TargetExams : SelectTargetExam(v)
    \/ ClickSave
    \/ EditProfile
    \/ \E v \in AppView : SetActiveView(v)
    \/ \E v \in Prompts : ClickGenerateMindMap(v)
    \/ \E v \in Prompts : EnterMindMapTopic(v)
    \/ \E e \in pending : \E resp \in Responses(e.kind) : NetworkSettles(e, resp)
    \/ Reload

SpecOnboarding == ProfileInit /\ [][OnboardingNext]_vars

\* The conversation with the tutor across Save and Edit Profile: the user
\* opens the tutor view and stays in it.
ConversationNext ==
    \/ ClickSave
    \/ EditProfile
    \/ SetActiveView(TUTOR)
    \/ \E i \in ChatInputs : ClickSend(i[1], i[2])
    \/ \E i \in ChatInputs : EnterChatInput(i[1], i[2])
    \/ ClearChat
    \/ \E e \in pending : FileReadDone(e)
    \/ \E e \in pending : FileReadFailed(e)
    \/ \E e \in pending : \E resp \in Responses(e.kind) : NetworkSettles(e, resp)
    \/ Reload

SpecConversation == Init /\ [][ConversationNext]_vars

ParseInit ==
    /\ AppInit(<<>>)
    /\ apiKey
    /\ \/ /\ text \in AllTexts \cup {NotJsonText}
          /\ embedded = NoParts
       \/ /\ embedded \in Wrapped
          /\ text = JoinParts(embedded)
    /\ result = NoResult
    /\ console = <<>>
    /\ calls = 0
    /\ MarkdownIdle

\* One call of cleanAndParseJSON(text).
CallCleanAndParseJSON ==
    /\ calls < MaxCalls
    /\ LET out == cleanAndParseJSON(text)
       IN /\ result' = [ok |-> out.ok, val |-> out.val, err |-> out.err,
                         parsed |-> out.parsed]
          /\ console' = console \o out.log
    /\ calls' = calls + 1
    /\ UNCHANGED <<text, embedded, markdownVars, appVars>>

ParseNext == CallCleanAndParseJSON

SpecParse == ParseInit /\ [][ParseNext]_vars

\* MarkdownContent given one line of content.
MarkdownInit ==
    /\ AppInit(<<>>)
    /\ apiKey
    /\ ParseIdle
    /\ span \in Spans
    /\ line = JoinSpan(span)
    /\ rendered = NoRender

\* One call of renderLine(line).
CallRenderLine ==
    /\ rendered = NoRender
    /\ rendered' = renderLine(line)
    /\ UNCHANGED <<line, span, parseVars, appVars>>

MarkdownNext == CallRenderLine

SpecMarkdown == MarkdownInit /\ [][MarkdownNext]_vars

\* =================================================================
\* Properties of cleanAndParseJSON, checked under SpecParse
\* =================================================================
Has(s, c) == \E i \in 1..Len(s) : s[i] = c
HasBrace(s) == Has(s, "{") \/ Has(s, "}")
ContainsFence(s) == \E i \in 1..Len(s) : MatchAt(s, i, Fence)
\* An opening brace followed later by a closing brace.
HasBracePair(s) == \E i, j \in 1..Len(s) : i < j /\ s[i] = "{" /\ s[j] = "}"

Called == calls > 0
CallStep == calls' = calls + 1
Failed(msg) == ~result.ok /\ result.err = msg

\* {name: 'Root', children: [{name: 'Leaf'}]}
ScenarioValue ==
    JObj(<< <<"n", "a", "m", "e">>, <<"c", "h", "i", "l", "d", "r", "e", "n">> >>,
         << JStr(<<"R", "o", "o", "t">>),
            JArr(<< JObj(<< <<"n", "a", "m", "e">> >>, << JStr(<<"L", "e", "a", "f">>) >>) >>) >>)

\* C1 as stated: for every text made of one valid JSON object surrounded by
\* arbitrary prose and fence markers, the call returns the value that parsing
\* the embedded object on its own gives.
C1_AnyWrapping ==
    (Called /\ embedded # NoParts) =>
        (result.ok /\ result.val = JSONparse(embedded.obj).val)

\* C1 as amended: when the prose around the object holds no brace and the
\* object's own text holds no fence marker, the call returns the value that
\* parsing the embedded object on its own gives; the scenario's text yields
\* {name: 'Root', children: [{name: 'Leaf'}]}.
C1_CleanWrapping ==
    /\ (Called /\ embedded # NoParts /\ ~HasBrace(embedded.before)
            /\ ~HasBrace(embedded.after) /\ ~ContainsFence(embedded.obj)) =>
          (result.ok /\ result.val = JSONparse(embedded.obj).val)
    /\ (Called /\ text = Scenario) => (result.ok /\ result.val = ScenarioValue)

C1_Witness == Called /\ text = Scenario /\ result.ok /\ embedded.obj = ObjRoot

\* C3 as stated: a non-empty text with no opening brace followed later by a
\* closing brace fails with the structure-not-found error and no other.
C3_NoPairNoStructure ==
    (Called /\ text # <<>> /\ ~HasBracePair(text)) => Failed(ErrNoStructure)

\* C4: the empty text, and no other, fails with the empty-input error; the
\* test comes before the fences are removed, so a text of fence markers only
\* fails with the structure-not-found error.
C4_EmptyInput ==
    Called =>
        /\ Failed(ErrEmpty) <=> text = <<>>
        /\ text = <<>> => result.parsed = <<>>
        /\ (text # <<>> /\ cleanText(text) = <<>>) => Failed(ErrNoStructure)

C4_Witness == Called /\ text = <<>> /\ Failed(ErrEmpty)

\* C5: a text whose first opening brace comes before its last closing brace
\* and whose slice between them is not valid JSON fails with the parse error,
\* and every failure carries one of the three named messages.
C5_ParseError ==
    Called =>
        LET c == cleanText(text)
            first == firstBrace(c)
            lastB == lastBrace(c)
        IN /\ result.ok \/ result.err \in {ErrEmpty, ErrNoStructure, ErrParse}
           /\ (first # -1 /\ first < lastB
                 /\ ~JSONparse(SubSeq(c, first + 1, lastB + 1)).ok) => Failed(ErrParse)

C5_Witness == Called /\ text = NotJsonText /\ Failed(ErrParse)

\* C6 as stated: when the text without its fences holds both braces, the one
\* text handed to the parser runs from the first opening brace through the
\* last closing brace, so it starts with an opening and ends with a closing brace.
C6_SliceBraceToBrace ==
    LET c == cleanText(text)
    IN (Called /\ Has(c, "{") /\ Has(c, "}")) =>
          /\ Len(result.parsed) = 1
          /\ result.parsed[1] = SubSeq(c, firstBrace(c) + 1, lastBrace(c) + 1)
          /\ Len(result.parsed[1]) >= 2
          /\ result.parsed[1][1] = "{"
          /\ result.parsed[1][Len(result.parsed[1])] = "}"

\* C7 as stated: a call writes nothing to the console, changes no state of the
\* application or the storage, and a second call on the same text ends as the first.
C7_Pure ==
    [][CallStep =>
          /\ console' = console
          /\ appVars' = appVars
          /\ Called => result' = result]_vars

\* C7 as amended: a call changes no state of the application or the storage,
\* a second call on the same text ends as the first, and the console gets one
\* entry, the slice that failed to parse, when the call fails with the parse
\* error and nothing otherwise.
C7_PureButForParseLog ==
    [][CallStep =>
          /\ appVars' = appVars
          /\ Called => result' = result
          /\ console' = console \o
                (IF ~result'.ok /\ result'.err = ErrParse
                 THEN <<ParseErrorEntry(result'.parsed[1])>> ELSE <<>>)]_vars

C7_Witness == calls = 2 /\ Failed(ErrParse) /\ Len(console) = 2 /\ console[1] = console[2]

\* =================================================================
\* Properties of the stored profile, checked under SpecProfile
\* =================================================================
Stored(p) == <<JSONstringifyProfile(p)>>

\* C8 as stated: the blob in the storage equals the profile in memory after
\* every mutation of the profile, so that a reload at any moment restores
\* the profile the user last had.
C8_StoredEqualsMemory ==
    /\ LoadProfile(storage) = userProfile
    /\ storage # <<>> => storage = Stored(userProfile)

\* C8 as amended: the storage is written by Save only, with the profile as
\* Save leaves it in memory; an edit of a field of the form and Edit Profile
\* leave the storage as it is, and a reload restores the profile of the last
\* Save, or the default profile when there was none.
C8_StoredOnSave ==
    [][/\ (~userProfile.isOnboarded /\ userProfile'.isOnboarded) =>
              (storage' = Stored(userProfile') /\ LoadProfile(storage') = userProfile')
       /\ storage' # storage =>
              (storage' = Stored(userProfile') /\ userProfile'.isOnboarded)
       /\ ~userProfile'.isOnboarded => storage' = storage
       /\ (storage' = storage /\ userProfile'.isOnboarded /\ ~userProfile.isOnboarded) =>
              userProfile' = LoadProfile(storage)]_vars

\* A profile saved, then opened with Edit Profile and renamed.
C8_Witness ==
    /\ storage # <<>>
    /\ ~userProfile.isOnboarded
    /\ userProfile.name # LoadProfile(storage).name
    /\ LoadProfile(storage).isOnboarded

\* =================================================================
\* Properties of the four features, checked under Spec, SpecInline, SpecChat
\* =================================================================
InlineKinds == {"note", "mindmap", "path"}
Outstanding(kind) == {e \in pending : e.kind = kind /\ e.phase = "network"}
LastMessage(hist) == hist[Len(hist)]

\* C2 as stated: no action type ever has more than one network request
\* outstanding, whatever the user clicks or types.
C2_OneOutstandingPerKind ==
    \A kind \in Kinds : Cardinality(Outstanding(kind)) <= 1

\* C9: when an invocation of the notes, mind-map or learning-path handler ends
\* in a rejection, the shared error holds a non-empty string, which the error
\* paragraph of each of the three views shows.
C9_RejectionShown ==
    (last.kind \in InlineKinds /\ ~last.ok) =>
        /\ Truthy(error)
        /\ \A v \in InlineViews : ErrorParagraph(v) = error

\* A notes request whose file could not be read: the rejection has no message.
C9_Witness ==
    /\ last.kind = "note" /\ ~last.ok /\ last.reason = "file read"
    /\ error = "Failed to generate notes."

\* C10: the step in which a chat turn fails appends one model message to the
\* conversation, the last one, flagged as an error and beginning 'Error: ',
\* and leaves the inline error as it was.
C10_ChatFailure ==
    [][(last'.kind = "chat" /\ ~last'.ok) =>
          LET added == SubSeq(chatHistory', Len(chatHistory) + 1, Len(chatHistory'))
              models == {i \in 1..Len(added) : added[i].role = "model"}
              m == LastMessage(chatHistory')
          IN /\ Len(chatHistory') > Len(chatHistory)
             /\ SubSeq(chatHistory', 1, Len(chatHistory)) = chatHistory
             /\ models = {Len(added)}
             /\ m.isError = TRUE
             /\ m.text[1] = "Error: " /\ Truthy(m.text[2])
             /\ error' = error]_vars

\* A chat turn that failed at the hosted model with an error without a message.
C10_Witness ==
    /\ last.kind = "chat" /\ ~last.ok /\ last.reason = "api error"
    /\ LastMessage(chatHistory).isError
    /\ LastMessage(chatHistory).text = <<"Error: ", "Failed to send message.">>
    /\ ~Truthy(error)

\* =================================================================
\* Properties of the handlers together, checked under SpecHandlers
\* =================================================================
Ended(kind) == last.kind = kind
EndedInFailure == last.kind # "none" /\ ~last.ok
MayStart == MainShown /\ nextId <= MaxRequests

\* C11: loading is never true without a handler invocation under way; when an
\* invocation has ended in failure loading is false, and in the view shown the
\* button (and the Enter key) starts an action for every input that is not
\* empty, the inputs of the failed action among them; every other view can be
\* opened.
C11_Recoverable ==
    /\ loading => pending # {}
    /\ EndedInFailure => ~loading
    /\ (EndedInFailure /\ MayStart) =>
          /\ activeView = NOTES =>
                \A v \in Prompts, f \in NoteFiles \cup {NoFile} :
                    (Truthy(v) \/ f.present) => ENABLED ClickGenerateNote(v, f)
          /\ activeView = MINDMAP =>
                (ENABLED ClickGenerateMindMap("cells") /\ ENABLED EnterMindMapTopic("cells"))
          /\ activeView = LEARNING_PATH => ENABLED ClickGeneratePath("cells")
          /\ activeView = TUTOR =>
                \A i \in ChatInputs :
                    (Truthy(i[1]) \/ i[2].present) =>
                        (ENABLED ClickSend(i[1], i[2]) /\ ENABLED EnterChatInput(i[1], i[2]))
          /\ \A v \in AppView \ {activeView} : ENABLED SetActiveView(v)

\* A notes request whose file could not be read, with the notes view shown.
C11_Witness ==
    /\ Ended("note") /\ ~last.ok /\ last.reason = "file read"
    /\ activeView = NOTES /\ MayStart /\ ~loading
    /\ noteFile = PdfFile

\* C12: without the credential no request is ever sent: an invocation ends
\* with the missing-key error of its service (or at the file read), the banner
\* is shown, the error is in the inline error of the three views or in an
\* error-flagged chat message, and loading is false.
C12_MissingKey ==
    ~apiKey =>
        /\ \A e \in pending : e.phase = "reading"
        /\ MainShown => ApiKeyWarning
        /\ last.kind # "none" =>
              /\ ~last.ok /\ last.reason \in {"missing key", "file read"}
              /\ ~loading
        /\ (last.reason = "missing key" /\ last.kind \in InlineKinds) =>
              /\ error = MissingKeyMessage(last.kind)
              /\ \A v \in InlineViews : ErrorParagraph(v) = MissingKeyMessage(last.kind)
        /\ (last.reason = "missing key" /\ last.kind = "chat") =>
              /\ LastMessage(chatHistory).isError
              /\ LastMessage(chatHistory).role = "model"
              /\ LastMessage(chatHistory).text = <<"Error: ", "API Key is missing">>

\* A chat turn sent without the credential.
C12_Witness ==
    /\ ~apiKey /\ ApiKeyWarning
    /\ Ended("chat") /\ last.reason = "missing key"
    /\ LastMessage(chatHistory).text = <<"Error: ", "API Key is missing">>
    /\ ~loading

\* =================================================================
\* Properties of the onboarding, checked under SpecOnboarding
\* =================================================================
FieldsFilled(p) == Truthy(p.name) /\ Truthy(p.grade) /\ Truthy(p.targetExam)
Gate == userProfile.isOnboarded /\ FieldsFilled(userProfile)

\* C13: a step that starts a handler invocation or selects a view is taken
\* from a state whose profile is onboarded with its three fields filled; the
\* profile becomes onboarded by Save only, in a state with the three fields
\* filled (or by a page load that reads what Save stored), and whenever the
\* profile is onboarded its three fields are filled; while it is not, no
\* button or key of the views starts anything.
C13_OnboardingGates ==
    [][/\ nextId' # nextId => Gate
       /\ ~userProfile.isOnboarded =>
              /\ \A v \in Prompts, f \in NoteFiles \cup {NoFile} :
                     ~ENABLED ClickGenerateNote(v, f)
              /\ \A v \in Prompts :
                     /\ ~ENABLED ClickGenerateMindMap(v) /\ ~ENABLED EnterMindMapTopic(v)
                     /\ ~ENABLED ClickGeneratePath(v)
              /\ \A i \in ChatInputs :
                     ~ENABLED ClickSend(i[1], i[2]) /\ ~ENABLED EnterChatInput(i[1], i[2])
              /\ \A v \in AppView : ~ENABLED SetActiveView(v)
       /\ (activeView' # activeView /\ ~Reload) => Gate
       /\ (~userProfile.isOnboarded /\ userProfile'.isOnboarded /\ ~Reload) =>
              /\ FieldsFilled(userProfile)
              /\ userProfile' = [userProfile EXCEPT !.isOnboarded = TRUE]
              /\ storage' = Stored(userProfile')
       /\ userProfile'.isOnboarded => FieldsFilled(userProfile')]_vars

\* A request started by a user who went through the form, and the form opened
\* again with Edit Profile while the request is under way.
C13_Witness ==
    /\ pending # {} /\ ~userProfile.isOnboarded
    /\ userProfile.name = "Bo" /\ storage = Stored([userProfile EXCEPT !.isOnboarded = TRUE])

\* =================================================================
\* Properties of the conversation, checked under SpecConversation
\* =================================================================
IsPrefix(a, b) == Len(a) <= Len(b) /\ SubSeq(b, 1, Len(a)) = a
Added(n) == Len(chatHistory') = Len(chatHistory) + n /\ IsPrefix(chatHistory, chatHistory')
IsUserMessage(m) == m.role = "user" /\ m.id # InitId
IsModelMessage(m) == m.role = "model" /\ m.id # InitId

\* C14: within a page's life every change of the chat history is Clear Chat
\* emptying it, the welcome message set onto an empty history, or messages
\* added at its end with all it held kept in place: one message (the user's,
\* the reply or the error message), or the user's and its error message when
\* the send ends for the missing credential in the step that began it.
C14_AppendOnly ==
    [][(chatHistory' # chatHistory /\ ~Reload) =>
          \/ ClearChat /\ chatHistory' = <<>>
          \/ /\ chatHistory = <<>>
             /\ chatHistory' = <<WelcomeMessage(userProfile')>>
             /\ ~userProfile.isOnboarded /\ userProfile'.isOnboarded
          \/ /\ Added(1)
             /\ \/ IsUserMessage(LastMessage(chatHistory')) /\ nextId' = nextId + 1
                \/ IsModelMessage(LastMessage(chatHistory')) /\ last'.kind = "chat"
          \/ /\ Added(2)
             /\ IsUserMessage(chatHistory'[Len(chatHistory) + 1])
             /\ IsModelMessage(LastMessage(chatHistory'))
             /\ LastMessage(chatHistory').isError
             /\ last'.kind = "chat" /\ last'.reason = "missing key"]_vars

\* The reply added behind the welcome and the question while the form, opened
\* again with Edit Profile, is shown.
C14_Witness ==
    /\ Len(chatHistory) = 3
    /\ chatHistory[1].id = InitId /\ IsUserMessage(chatHistory[2])
    /\ IsModelMessage(chatHistory[3]) /\ ~chatHistory[3].isError
    /\ Ended("chat") /\ ~userProfile.isOnboarded

\* =================================================================
\* The profile is kept, checked under SpecProfile
\* =================================================================
\* C15: a step that takes the profile from onboarded to not onboarded changes
\* the flag alone, in memory, and leaves the storage as it is; once the
\* storage holds a profile every step leaves it holding one, with its name,
\* grade and target exam filled.
C15_ProfileKept ==
    [][/\ (userProfile.isOnboarded /\ ~userProfile'.isOnboarded) =>
              /\ userProfile' = [userProfile EXCEPT !.isOnboarded = FALSE]
              /\ storage' = storage
       /\ storage # <<>> =>
              /\ storage' # <<>>
              /\ FieldsFilled(JSONparseProfile(storage'[1]))
              /\ JSONparseProfile(storage'[1]).isOnboarded]_vars

\* The form opened with Edit Profile, holding what the user saved.
C15_Witness ==
    /\ storage # <<>>
    /\ ~userProfile.isOnboarded
    /\ FieldsFilled(userProfile)
    /\ userProfile = [LoadProfile(storage) EXCEPT !.isOnboarded = FALSE]

\* =================================================================
\* Results replaced wholesale, checked under SpecDiagrams
\* =================================================================
\* C16: the step in which a mind-map or learning-path request is answered
\* with success stores the value the service returned for that answer, whatever
\* was stored before; and after every step the svg of the viewer holds the
\* labels of the nodes of the stored tree, each once, when the mind-map view
\* shows one, and nothing otherwise.
C16_ReplacedWholesale ==
    [][/\ \A e \in pending : (last'.ok /\ e.id = last'.id) =>
              \A resp \in Responses(e.kind) : NetworkSettles(e, resp) =>
                  /\ e.kind = "mindmap" => mindMapData' = generateMindMapData(resp).data
                  /\ e.kind = "path" => learningPath' = generateLearningPath(resp).data
       /\ svg' = IF userProfile'.isOnboarded /\ activeView' = MINDMAP /\ JTruthy(mindMapData')
                 THEN Draw(mindMapData')
                 ELSE <<>>]_vars

\* The second mind map of the page has arrived and its one node is drawn.
C16_Witness ==
    /\ Ended("mindmap") /\ last.ok /\ last.id = 2
    /\ activeView = MINDMAP
    /\ svg = <<JStr(<<"L", "e", "a", "f">>)>>

\* =================================================================
\* Requests in flight together, checked under Spec
\* =================================================================
\* C17: loading is true exactly while some handler invocation waits for its
\* promise: never false while one is under way, and false when none is.
C17_LoadingWhileOutstanding ==
    /\ pending # {} => loading
    /\ pending = {} => ~loading

StoredResult(kind) ==
    CASE kind = "note" -> generatedNote
      [] kind = "mindmap" -> mindMapData
      [] kind = "path" -> learningPath

\* C18: when the answer to an earlier request of a type arrives right after
\* the answer to a later request of that type was stored, and ends the last
\* request of the type, the stored result stays that of the later request.
C18_LatestRequestWins ==
    [][\A kind \in InlineKinds :
          (/\ last.kind = kind /\ last.ok
           /\ last'.kind = kind /\ last'.ok
           /\ last'.id < last.id
           /\ \A e \in pending' : e.kind # kind) =>
              StoredResult(kind)' = StoredResult(kind)]_vars

\* =================================================================
\* Questions and answers, checked under SpecChat
\* =================================================================
Users(hist, n) == Cardinality({i \in 1..n : IsUserMessage(hist[i])})
Models(hist, n) == Cardinality({i \in 1..n : IsModelMessage(hist[i])})

\* C19: up to every place of the chat history there are at least as many user
\* messages as replies and error messages: no reply stands in the history
\* without its question before it.
C19_ReplyAfterQuestion ==
    \A n \in 1..Len(chatHistory) : Models(chatHistory, n) <= Users(chatHistory, n)

\* C20: the step of an accepted send puts the user's message at the end of
\* the history, and the request it issues, if any, is issued in that step with
\* the message's text; the step in which a send ends adds exactly one model
\* message, at the end, error-flagged exactly when the send failed, takes the
\* invocation out of those waiting, and leaves loading false; no other step
\* adds a model message.
C20_SendThenOneAnswer ==
    [][/\ nextId' = nextId + 1 =>
              LET sent == chatHistory'[Len(chatHistory) + 1]
              IN /\ Len(chatHistory') > Len(chatHistory)
                 /\ IsPrefix(chatHistory, chatHistory')
                 /\ IsUserMessage(sent)
                 /\ \A e \in pending' \ pending :
                        e.id = nextId /\ e.kind = "chat" /\ sent.text = <<e.prompt>>
       /\ last'.kind = "chat" =>
              /\ Models(chatHistory', Len(chatHistory')) =
                     Models(chatHistory, Len(chatHistory)) + 1
              /\ IsModelMessage(LastMessage(chatHistory'))
              /\ LastMessage(chatHistory').isError = ~last'.ok
              /\ \A e \in pending' : e.id # last'.id
              /\ last'.id = nextId \/ \E e \in pending : e.id = last'.id
              /\ ~loading'
       /\ last'.kind # "chat" =>
              Models(chatHistory', Len(chatHistory')) <= Models(chatHistory, Len(chatHistory))]_vars

\* The tutor's answer behind the question it answers.
C20_Witness ==
    /\ Ended("chat") /\ last.ok /\ ~loading
    /\ Len(chatHistory) >= 2
    /\ LastMessage(chatHistory).text = <<"Sure!">>
    /\ IsUserMessage(chatHistory[Len(chatHistory) - 1])
    /\ chatHistory[Len(chatHistory) - 1].text = <<"cells">>

\* =================================================================
\* What a generation leaves alone, checked under SpecInline
\* =================================================================
\* C21: the step in which a notes, mind-map or learning-path invocation ends
\* in failure leaves the note, the mind map with its drawing, the learning
\* path and the chat history as they were, sets the error and leaves loading
\* false; when it is the promise that failed, the fields, the view and the
\* profile are left as they were too.
C21_FailureKeepsResults ==
    [][(last'.kind \in InlineKinds /\ ~last'.ok) =>
          /\ UNCHANGED <<generatedNote, mindMapData, svg, learningPath, chatHistory>>
          /\ UNCHANGED <<activeView, userProfile, storage>>
          /\ nextId' = nextId =>
                 UNCHANGED <<notePrompt, noteFile, mindMapTopic, learningTopic,
                             chatInput, chatFile>>
          /\ Truthy(error') /\ ~loading']_vars

\* A mind map kept on the screen after the next generation failed.
C21_Witness ==
    /\ Ended("mindmap") /\ ~last.ok /\ last.reason = "bad response"
    /\ JTruthy(mindMapData) /\ svg = Draw(mindMapData) /\ svg # <<>>
    /\ Truthy(error)

\* =================================================================
\* The error and the view it belongs to, checked under Spec
\* =================================================================
ViewOf(kind) ==
    CASE kind = "note" -> NOTES
      [] kind = "mindmap" -> MINDMAP
      [] kind = "path" -> LEARNING_PATH
      [] kind = "chat" -> TUTOR

\* C22: when the view on the screen shows an inline error and a notes,
\* mind-map or learning-path invocation has just failed, the failure is that
\* of the feature of the view shown.
C22_ErrorOfItsView ==
    (/\ MainShown /\ Truthy(ErrorParagraph(activeView))
     /\ last.kind \in InlineKinds /\ ~last.ok) =>
        activeView = ViewOf(last.kind)

\* =================================================================
\* Handlers called with nothing to send, checked under SpecHandlers
\* =================================================================
Fields == <<notePrompt, noteFile, mindMapTopic, learningTopic, chatInput, chatFile>>
Observed ==
    <<loading, error, generatedNote, mindMapData, svg, learningPath, chatHistory,
      pending, nextId>>

\* A handler called while its fields are empty.
CallWithNoInput(kind) ==
    \/ kind = "note" /\ handleGenerateNote("", NoFile) /\ UNCHANGED Fields
    \/ kind = "mindmap" /\ handleGenerateMindMap("") /\ UNCHANGED Fields
    \/ kind = "path" /\ handleGeneratePath("") /\ UNCHANGED Fields
    \/ /\ kind = "chat" /\ handleSendMessage("", NoFile)
       /\ UNCHANGED <<notePrompt, noteFile, mindMapTopic, learningTopic>>

\* C23: in every state each of the four handlers, called with empty text and
\* no file, returns, and no such call issues a request or changes loading,
\* the error, a result, the drawing or the chat history.
C23_NoInputNoOp ==
    \A kind \in Kinds :
        /\ ENABLED CallWithNoInput(kind)
        /\ ~ENABLED (CallWithNoInput(kind) /\ Observed' # Observed)

\* Enter pressed in the emptied topic field under a mind map, while a request
\* is under way: nothing has ended and nothing was started.
C23_Witness ==
    /\ activeView = MINDMAP /\ mindMapTopic = ""
    /\ JTruthy(mindMapData) /\ pending # {} /\ loading
    /\ last = NoneEnded

\* =================================================================
\* The ids of the messages, checked under SpecClock
\* =================================================================
\* C24: the messages of the chat history have pairwise distinct ids.
C24_DistinctIds ==
    \A i, j \in 1..Len(chatHistory) :
        i # j => chatHistory[i].id # chatHistory[j].id

\* =================================================================
\* What a send passes to the tutor, checked under SpecConversation
\* =================================================================
\* C25: the invocation a send starts holds, as the history for the tutor, the
\* messages the chat history held before the send, in their order, each with
\* its role and text, and as the current message the text of the user message
\* the send added behind them; an invocation keeps both while it waits.
C25_HistoryPassed ==
    [][/\ \A e \in pending' \ pending : e.id = nextId =>
              /\ Len(e.history) = Len(chatHistory)
              /\ \A i \in 1..Len(chatHistory) :
                     /\ e.history[i].role = chatHistory[i].role
                     /\ e.history[i].text = chatHistory[i].text
              /\ Len(chatHistory') = Len(chatHistory) + 1
              /\ IsUserMessage(LastMessage(chatHistory'))
              /\ LastMessage(chatHistory').text = <<e.prompt>>
       /\ \A e \in pending : \A f \in pending' :
              e.id = f.id => (f.history = e.history /\ f.prompt = e.prompt)]_vars

\* A second question sent while the first is with the tutor: the history
\* passed holds the welcome and the first question.
C25_Witness ==
    \E e \in pending :
        /\ e.id = 2 /\ e.phase = "network"
        /\ Len(e.history) = 2
        /\ e.history[1].role = "model" /\ e.history[2].role = "user"
        /\ Len(chatHistory) = 3

\* =================================================================
\* The empty answer, checked under SpecDiagrams
\* =================================================================
EmptyAnswer == ApiResponse(Undefined, <<>>)
EmptyResponseMessages == {"Empty response", ErrEmpty}

\* C26: the step in which a mind-map or learning-path request is answered
\* with the empty text ends with an error that names the empty response and
\* is not that of a JSON syntax error; so does the extraction routine of the
\* other variant of the two services on the empty text.
C26_EmptyResponseNamed ==
    [][\A e \in pending :
          (/\ e.id = last'.id /\ e.kind \in {"mindmap", "path"}
           /\ NetworkSettles(e, EmptyAnswer)) =>
              /\ error' \in EmptyResponseMessages
              /\ error' # SyntaxErrorMessage
              /\ cleanAndParseJSON(<<>>).err \in EmptyResponseMessages]_vars

\* =================================================================
\* The two cleanups compared, checked under SpecParse
\* =================================================================
\* What each service of the service module makes of the answer text t.
StrictOutcomes(t) ==
    {generateMindMapData(ApiResponse(Undefined, t)),
     generateLearningPath(ApiResponse(Undefined, t))}

\* C27: when a service of the service module resolves with a JSON object on
\* the text cleanAndParseJSON was called with, cleanAndParseJSON returned,
\* and returned an equal value.
C27_TolerantAcceptsStrict ==
    Called =>
        \A out \in StrictOutcomes(text) :
            (out.ok /\ out.data.t = "object") => (result.ok /\ result.val = out.data)

\* A fenced object with white space around it, accepted by both.
C27_Witness ==
    /\ Called /\ ContainsFence(text) /\ text # cleanText(text)
    /\ trim(cleanText(text)) # cleanText(text)
    /\ \A out \in StrictOutcomes(text) : out.ok /\ out.data.t = "object"
    /\ result.ok /\ result.val.keys # <<>>

\* =================================================================
\* The request of a note generation, checked under SpecNotes
\* =================================================================
\* What handleGenerateNote passes once the file of e, if any, is read.
NotesRequest(e) ==
    NotesParts(e.prompt,
               IF e.file.present THEN e.file.data ELSE Undefined,
               IF e.file.present THEN e.file.type ELSE Undefined)

\* C28: the request of a note generation started with a file attached holds
\* two parts: the file's base64 data with its MIME type, then the prompt.
C28_FileInRequest ==
    \A e \in pending :
        (e.kind = "note" /\ e.phase = "network" /\ e.file.present) =>
            /\ Len(NotesRequest(e)) = 2
            /\ NotesRequest(e)[1] =
                   [part |-> "inlineData", data |-> e.file.data, mimeType |-> e.file.type]
            /\ NotesRequest(e)[2].part = "text"
            /\ NotesRequest(e)[2].data = e.prompt

\* =================================================================
\* Bold spans, checked under SpecMarkdown
\* =================================================================
\* The element a line is for, by what stands before its first span.
ExpectedTag(before) ==
    CASE before = <<"#", " ">> -> "h1"
      [] before = <<"#", "#", " ">> -> "h2"
      [] before = <<"#", "#", "#", " ">> -> "h3"
      [] before \in {<<"-", " ">>, <<"*", " ">>} -> "li"
      [] OTHER -> "p"

\* C29: the element rendered for a line with a span of a term between stars
\* has a bold child showing the term, shows no pair of stars in any of its
\* strings, and is a header, a bullet item or a paragraph as the start of the
\* line says: a paragraph when the line starts with the span.
C29_BoldEverywhere ==
    rendered # NoRender =>
        /\ \E i \in 1..Len(rendered.children) :
               rendered.children[i] = Inline(TRUE, span.term)
        /\ \A i \in 1..Len(rendered.children) :
               ~rendered.children[i].bold =>
                   IndexOfFrom(rendered.children[i].chars, 1, Stars) = 0
        /\ rendered.tag = ExpectedTag(span.before)

====
